---- MODULE Spec2Model ----
(***************************************************************************)
(* Page-replacement simulators of the repository:                          *)
(*   src/memsim.py              LRUSim, ClockSim (disk reads / writes)     *)
(*   src/prac2/memsim.py        simulate_lru, simulate_clock (Stats)       *)
(*   src/prac2/memsim_backup.py FIFO with a fixed number of frames         *)
(* One run owns one engine: `algo` is chosen at construction and the       *)
(* engine's access operation is applied once per event of the trace.       *)
(***************************************************************************)
EXTENDS Integers, Sequences, FiniteSets, TLC

\* ---- bounds of the model ----
MaxLen == 6            \* events delivered by the trace source in one run
NumPages == 4          \* page numbers 1..NumPages
MaxCap == 3            \* capacities 1..MaxCap

\* ---- program constants ----
PAGE_SIZE == 4096
FifoFrames == 3
NoPage == -1
None == 0

PageIds == 1..NumPages
Ops == {"R", "W"}
\* byte addresses handed to access(): the last byte of every page
Addrs == {p * PAGE_SIZE + (PAGE_SIZE - 1) : p \in PageIds}
Algos == {"lru", "clock", "p2lru", "p2clock", "fifo"}

VARIABLES
    cfg,                    \* the configuration the run was started with
    status,                 \* "running", "config_error", "done" or "crashed"
    report,                 \* what the run printed at the end of the trace
    algo, capacity,
    \* src/memsim.py
    frames,                 \* LRUSim.frames : OrderedDict, oldest entry first
    pages, refbit, dirty, hand, loc,          \* ClockSim
    events, disk_reads, disk_writes,          \* counters of either sim
    \* src/prac2/memsim.py
    stats, last,            \* simulate_lru
    p2frame, p2refbit, p2hand,                \* simulate_clock
    \* src/prac2/memsim_backup.py
    memory, hits, misses, evictions,
    \* observation of the run (history; no engine reads it)
    delivered,              \* number of events the trace source delivered
    nhits,                  \* how many of them named a page resident at that time
    recency,                \* resident pages, least recently accessed first
    wsl,                    \* wsl[p] : p is resident and was written since its load
    evicted,                \* page removed by the latest access, NoPage if none
    visits,                 \* slots visited by the victim search of the latest access
    replay,                 \* pages delivered so far while they follow a regression trace
    distinct,               \* pages delivered so far while no page has come twice
    loadOrder               \* FIFO runs: resident pages, earliest loaded first

simvars == <<frames, pages, refbit, dirty, hand, loc, events, disk_reads, disk_writes>>
lruvars == <<frames>>
clockvars == <<pages, refbit, dirty, hand, loc>>
p2lruvars == <<last>>
p2clockvars == <<p2frame, p2refbit, p2hand>>
p2vars == <<stats, last, p2frame, p2refbit, p2hand>>
fifovars == <<memory, hits, misses, evictions>>
obsvars == <<delivered, nhits, recency, wsl, evicted, visits, replay, distinct, loadOrder>>
runvars == <<cfg, status, report>>
vars == <<runvars, algo, capacity, simvars, p2vars, fifovars, obsvars>>

\* ---- regression traces (comment and blank lines already dropped) ----
Off == <<0>>
TRACES ==
    { <<1, 2, 3, 2, 4, 1>>,        \* trace_sanity.txt
      <<1, 2, 3, 1, 2, 3>>,        \* trace_hits.txt
      <<1, 2, 3, 4, 5, 6>>,        \* trace_evictions.txt
      <<1, 1, 1, 2, 2, 3, 3>>,     \* trace_repeat.txt
      <<1, 2, 3, 2>>,              \* trace_comments.txt
      <<1, 2, 1, 2, 1>>,           \* trace_single_frame.txt
      <<1, 2, 3, 1, 2, 4>> }       \* CLOCK example of the design document

IsPrefix(s, t) == Len(s) <= Len(t) /\ \A i \in 1..Len(s) : s[i] = t[i]

Follow(r, p) ==
    IF r # Off /\ \E t \in TRACES : IsPrefix(Append(r, p), t)
    THEN Append(r, p) ELSE Off

\* marks a run in which some page has been delivered twice
Repeated == {0}

\* ---- helpers on sequences and functions ----
Range(f) == {f[x] : x \in DOMAIN f}

RemoveAt(s, i) == [j \in 1..(Len(s) - 1) |-> IF j < i THEN s[j] ELSE s[j + 1]]

Without(f, k) == [x \in (DOMAIN f) \ {k} |-> f[x]]

With(f, k, v) == [x \in (DOMAIN f) \cup {k} |-> IF x = k THEN v ELSE f[x]]

Slots == 0..(capacity - 1)

\* ---- the set of resident pages, per engine ----
Resident ==
    CASE algo = "lru" -> {frames[i].page : i \in DOMAIN frames}
      [] algo = "clock" -> Range(pages) \ {NoPage}
      [] algo = "p2lru" -> DOMAIN last
      [] algo = "p2clock" -> Range(p2frame) \ {None}
      [] algo = "pair" -> Range(pages) \ {NoPage}
      [] OTHER -> Range(memory)

\* ---- observation of one access (history variables only) ----
Observe(page, op, nvisits) ==
    /\ delivered' = delivered + 1
    /\ nhits' = IF page \in Resident THEN nhits + 1 ELSE nhits
    /\ recency' = SelectSeq(Append(SelectSeq(recency, LAMBDA q : q # page), page),
                             LAMBDA q : q \in Resident')
    /\ wsl' = [p \in PageIds |->
                 IF p = page THEN (page \in Resident /\ wsl[p]) \/ op = "W"
                 ELSE p \in Resident' /\ wsl[p]]
    /\ evicted' = IF Resident \ Resident' = {} THEN NoPage
                  ELSE CHOOSE p \in Resident \ Resident' : TRUE
    /\ visits' = nvisits
    /\ replay' = Follow(replay, page)
    /\ distinct' = IF distinct # Repeated /\ page \notin distinct
                   THEN distinct \cup {page} ELSE Repeated
    /\ loadOrder' = IF algo = "fifo"
                    THEN SelectSeq(IF page \in Resident THEN loadOrder
                                   ELSE Append(loadOrder, page),
                                   LAMBDA q : q \in Resident')
                    ELSE <<>>

\* ======================= src/memsim.py : LRUSim =======================
\* position of `page` in the OrderedDict, 0 when it is not a key
KeyIndex(fr, page) ==
    IF \E i \in DOMAIN fr : fr[i].page = page
    THEN CHOOSE i \in DOMAIN fr : fr[i].page = page
    ELSE 0

TouchNoMove(fr, page) == fr

\* OrderedDict.move_to_end(page, last=True)
Touch(fr, page) ==
    LET i == KeyIndex(fr, page) IN Append(RemoveAt(fr, i), fr[i])

AtCapacityOffByOne(n, cap) == n > cap

AtCapacityEarly(n, cap) == n > 0 /\ n + 1 >= cap

\* len(self.frames) >= self.capacity
AtCapacity(n, cap) == n >= cap

PopNewest(fr) == Len(fr)

\* OrderedDict.popitem(last=False) : the entry removed
PopIndex(fr) == 1

WriteBackAlways(dw, isDirty) == dw + 1

\* self.disk_writes += 1 only for a dirty victim
WriteBack(dw, isDirty) == IF isDirty THEN dw + 1 ELSE dw

MarkDirtyDropped(d, op) == d

\* if op == 'W': fr.dirty = True
MarkDirty(d, op) == d \/ op = "W"

InsertOldest(fr, e) == <<e>> \o fr

\* self.frames[page] = Frame(...) : a new key goes to the end of the OrderedDict
Insert(fr, e) == Append(fr, e)

LRUAccess(op, addr) ==
    LET page == addr \div PAGE_SIZE
        i == KeyIndex(frames, page)
    IN  /\ algo = "lru"
        /\ status = "running"
        /\ delivered < MaxLen
        /\ UNCHANGED runvars
        /\ events' = events + 1
        /\ UNCHANGED <<algo, capacity, clockvars, p2vars, fifovars>>
        /\ IF i # 0
           THEN /\ frames' = Touch([frames EXCEPT ![i].dirty = MarkDirty(@, op)], page)
                /\ UNCHANGED <<disk_reads, disk_writes>>
           ELSE LET full == AtCapacity(Len(frames), capacity)
                    v == PopIndex(frames)
                    kept == IF full THEN RemoveAt(frames, v) ELSE frames
                IN  /\ disk_reads' = disk_reads + 1
                    /\ disk_writes' = IF full THEN WriteBack(disk_writes, frames[v].dirty)
                                      ELSE disk_writes
                    /\ frames' = Insert(kept, [page |-> page, dirty |-> op = "W"])
        /\ Observe(page, op, 0)

\* ======================= src/memsim.py : ClockSim =====================
\* self.hand = (self.hand + 1) % self.capacity
Advance(h) == (h + 1) % capacity

\* for i in range(capacity): if pages[i] == -1: empty_idx = i; break
EmptyIdx(pg) ==
    IF \E i \in DOMAIN pg : pg[i] = NoPage
    THEN CHOOSE i \in DOMAIN pg : pg[i] = NoPage /\ \A j \in DOMAIN pg : pg[j] = NoPage => i <= j
    ELSE -1

\* the victim search is cut off once it has visited more than ScanCut slots
ScanCut == 2 * capacity

RECURSIVE ClockScanNoClear(_, _, _)
ClockScanNoClear(rb, h, n) ==
    IF rb[h] = 0 THEN [victim |-> h, refbit |-> rb, visits |-> n + 1]
    ELSE IF n + 1 > ScanCut THEN [victim |-> -1, refbit |-> rb, visits |-> n + 1]
    ELSE ClockScanNoClear(rb, Advance(h), n + 1)

RECURSIVE ClockScanAdvanceFirst(_, _, _)
ClockScanAdvanceFirst(rb, h, n) ==
    IF rb[Advance(h)] = 0 THEN [victim |-> Advance(h), refbit |-> rb, visits |-> n + 1]
    ELSE IF n + 1 > ScanCut THEN [victim |-> -1, refbit |-> rb, visits |-> n + 1]
    ELSE ClockScanAdvanceFirst([rb EXCEPT ![Advance(h)] = 0], Advance(h), n + 1)

\* while True: if refbit[hand] == 0: victim = hand; break
\*             refbit[hand] = 0; _advance()
RECURSIVE ClockScan(_, _, _)
ClockScan(rb, h, n) ==
    IF rb[h] = 0 THEN [victim |-> h, refbit |-> rb, visits |-> n + 1]
    ELSE IF n + 1 > ScanCut THEN [victim |-> -1, refbit |-> rb, visits |-> n + 1]
    ELSE ClockScan([rb EXCEPT ![h] = 0], Advance(h), n + 1)

DelLocKept(l, old) == l

\* del self.loc[old_page]
DelLoc(l, old) == Without(l, old)

HandStays(victim) == victim

\* self.hand = (victim + 1) % self.capacity
HandAfter(victim) == (victim + 1) % capacity

RefOnHitMissing(rb, idx) == rb

\* self.refbit[idx] = 1
RefOnHit(rb, idx) == [rb EXCEPT ![idx] = 1]

\* slots the victim search of this access visits (0 on a hit or a free slot)
ClockVisits(page) ==
    IF page \in DOMAIN loc \/ EmptyIdx(pages) # -1 THEN 0
    ELSE ClockScan(refbit, hand, 0).visits

\* the body of ClockSim.access
ClockStep(op, addr) ==
    LET page == addr \div PAGE_SIZE
        idx == IF page \in DOMAIN loc THEN loc[page] ELSE -1
    IN  /\ events' = events + 1
        /\ IF idx # -1
           THEN /\ refbit' = RefOnHit(refbit, idx)
                /\ dirty' = IF op = "W" THEN [dirty EXCEPT ![idx] = 1] ELSE dirty
                /\ UNCHANGED <<pages, hand, loc, disk_reads, disk_writes>>
           ELSE LET empty_idx == EmptyIdx(pages)
                    scan == IF empty_idx # -1
                            THEN [victim |-> empty_idx, refbit |-> refbit, visits |-> 0]
                            ELSE ClockScan(refbit, hand, 0)
                    victim == scan.victim
                IN  /\ disk_reads' = disk_reads + 1
                    /\ IF victim = -1
                       THEN \* the search did not end: the access never returns
                            /\ refbit' = scan.refbit
                            /\ UNCHANGED <<pages, dirty, hand, loc, disk_writes>>
                       ELSE LET old_page == pages[victim]
                                loc1 == IF old_page # NoPage THEN DelLoc(loc, old_page) ELSE loc
                            IN  /\ disk_writes' = IF old_page # NoPage
                                                  THEN WriteBack(disk_writes, dirty[victim] # 0)
                                                  ELSE disk_writes
                                /\ pages' = [pages EXCEPT ![victim] = page]
                                /\ refbit' = [scan.refbit EXCEPT ![victim] = 1]
                                /\ dirty' = [dirty EXCEPT ![victim] = IF op = "W" THEN 1 ELSE 0]
                                /\ loc' = With(loc1, page, victim)
                                /\ hand' = HandAfter(victim)

ClockAccess(op, addr) ==
    /\ algo = "clock"
    /\ status = "running"
    /\ delivered < MaxLen
    /\ UNCHANGED runvars
    /\ UNCHANGED <<algo, capacity, lruvars, p2vars, fifovars>>
    /\ ClockStep(op, addr)
    /\ Observe(addr \div PAGE_SIZE, op, ClockVisits(addr \div PAGE_SIZE))

\* ================== src/prac2/memsim.py : simulate_lru =================
StatHitDropped(s) == s

\* stats.hits += 1
StatHit(s) == [s EXCEPT !.hits = @ + 1]

\* stats.misses += 1
StatMiss(s) == [s EXCEPT !.misses = @ + 1]

\* min(last.items(), key=lambda kv: kv[1])[0]
MinLast(l) == CHOOSE p \in DOMAIN l : \A q \in DOMAIN l : l[p] <= l[q]

P2LruAccess(pg) ==
    LET t == stats.references
        s1 == [stats EXCEPT !.references = @ + 1]
    IN  /\ algo = "p2lru"
        /\ status = "running"
        /\ delivered < MaxLen
        /\ UNCHANGED runvars
        /\ UNCHANGED <<algo, capacity, simvars, p2clockvars, fifovars>>
        /\ IF pg \in DOMAIN last
           THEN /\ stats' = StatHit(s1)
                /\ last' = [last EXCEPT ![pg] = t]
           ELSE IF Cardinality(DOMAIN last) < capacity
           THEN /\ stats' = StatMiss(s1)
                /\ last' = With(last, pg, t)
           ELSE LET victim == MinLast(last)
                IN  /\ stats' = [StatMiss(s1) EXCEPT !.evictions = @ + 1]
                    /\ last' = With(Without(last, victim), pg, t)
        /\ Observe(pg, "R", 0)

\* ================= src/prac2/memsim.py : simulate_clock ================
\* for i, val in enumerate(frame): if val == pg: ... break
FindFrame(fr, pg) ==
    IF \E i \in DOMAIN fr : fr[i] = pg
    THEN CHOOSE i \in DOMAIN fr : fr[i] = pg /\ \A j \in DOMAIN fr : fr[j] = pg => i <= j
    ELSE -1

\* next((i for i, v in enumerate(frame) if v is None), None)
FirstNone(fr) == FindFrame(fr, None)

\* while True: if refbit[hand] == 0: evict at hand ... break
\*             else: refbit[hand] = 0; hand = (hand + 1) % frames
RECURSIVE P2Scan(_, _, _)
P2Scan(rb, h, n) ==
    IF rb[h] = 0 THEN [victim |-> h, refbit |-> rb, visits |-> n + 1]
    ELSE IF n + 1 > ScanCut THEN [victim |-> -1, refbit |-> rb, visits |-> n + 1]
    ELSE P2Scan([rb EXCEPT ![h] = 0], (h + 1) % capacity, n + 1)

\* slots the second-chance loop of this reference visits
P2Visits(pg) ==
    IF FindFrame(p2frame, pg) # -1 \/ FirstNone(p2frame) # -1 THEN 0
    ELSE P2Scan(p2refbit, p2hand, 0).visits

\* one iteration of the loop over pages in simulate_clock
P2ClockStep(pg) ==
    LET s1 == [stats EXCEPT !.references = @ + 1]
        i == FindFrame(p2frame, pg)
        empty_idx == FirstNone(p2frame)
    IN  /\ IF i # -1
           THEN /\ p2refbit' = [p2refbit EXCEPT ![i] = 1]
                /\ stats' = StatHit(s1)
                /\ UNCHANGED <<p2frame, p2hand>>
           ELSE IF empty_idx # -1
           THEN /\ stats' = StatMiss(s1)
                /\ p2frame' = [p2frame EXCEPT ![empty_idx] = pg]
                /\ p2refbit' = [p2refbit EXCEPT ![empty_idx] = 1]
                /\ UNCHANGED p2hand
           ELSE LET scan == P2Scan(p2refbit, p2hand, 0)
                    victim == scan.victim
                IN  /\ IF victim = -1
                       THEN \* the loop did not end: the run never returns
                            /\ stats' = StatMiss(s1)
                            /\ p2refbit' = scan.refbit
                            /\ UNCHANGED <<p2frame, p2hand>>
                       ELSE /\ stats' = [StatMiss(s1) EXCEPT !.evictions = @ + 1]
                            /\ p2frame' = [p2frame EXCEPT ![victim] = pg]
                            /\ p2refbit' = [scan.refbit EXCEPT ![victim] = 1]
                            /\ p2hand' = (victim + 1) % capacity

P2ClockAccess(pg) ==
    /\ algo = "p2clock"
    /\ status = "running"
    /\ delivered < MaxLen
    /\ UNCHANGED runvars
    /\ UNCHANGED <<algo, capacity, simvars, p2lruvars, fifovars>>
    /\ P2ClockStep(pg)
    /\ Observe(pg, "R", P2Visits(pg))

\* ==================== src/prac2/memsim_backup.py : main ================
PopBack(m) == SubSeq(m, 1, Len(m) - 1)

\* memory.pop(0)
PopFront(m) == Tail(m)

FifoAccess(p) ==
    /\ algo = "fifo"
    /\ status = "running"
    /\ delivered < MaxLen
    /\ UNCHANGED runvars
    /\ UNCHANGED <<algo, capacity, simvars, p2vars>>
    /\ IF \E i \in DOMAIN memory : memory[i] = p
       THEN /\ hits' = hits + 1
            /\ UNCHANGED <<memory, misses, evictions>>
       ELSE /\ misses' = misses + 1
            /\ hits' = hits
            /\ IF Len(memory) < FifoFrames
               THEN /\ memory' = Append(memory, p)
                    /\ UNCHANGED evictions
               ELSE /\ memory' = Append(PopFront(memory), p)
                    /\ evictions' = evictions + 1
    /\ Observe(p, "R", 0)

\* ============================ the runs =================================
Programs == {"memsim", "prac2", "backup"}
PolicyNames == {"lru", "clock", "fifo"}
FrameArgs == (0 - 1)..MaxCap

\* command lines: memsim.py <trace> <numframes> <algorithm> <mode>,
\* prac2/memsim.py <policy> <frames> [trace]; memsim_backup.py takes none
Configs ==
    [program : {"memsim", "prac2"}, algorithm : PolicyNames, numframes : FrameArgs]
        \cup {[program |-> "backup", algorithm |-> "fifo", numframes |-> FifoFrames]}

\* ClockSim and simulate_clock built with the same capacity, to be fed the
\* same page sequence
PairConfigs == [program : {"both"}, algorithm : {"clock"}, numframes : 1..MaxCap]

BadFramesNegativeOnly(n) == n < 0

\* capacity <= 0  (LRUSim.__init__, ClockSim.__init__, parse_cli)
BadFrames(n) == n <= 0

\* the configuration is accepted and an engine is built
Accepted(c) ==
    CASE c.program = "memsim" -> c.algorithm \in {"lru", "clock"} /\ ~BadFrames(c.numframes)
      [] c.program = "prac2" -> c.algorithm \in {"lru", "clock"} /\ ~BadFrames(c.numframes)
      [] OTHER -> TRUE

\* the engine a configuration selects
EngineOf(c) ==
    CASE c.program = "memsim" -> c.algorithm
      [] c.program = "prac2" -> IF c.algorithm = "lru" THEN "p2lru" ELSE "p2clock"
      [] c.program = "both" -> "pair"
      [] OTHER -> "fifo"

NoReport == [events |-> 0 - 1, faults |-> 0 - 1, rate |-> <<0, 0>>]

\* state after construction of the engine named by `algo`, or after the
\* configuration was refused
\* the state after construction under configuration c
Start(c) ==
    /\ cfg = c
    /\ status = IF Accepted(cfg) THEN "running" ELSE "config_error"
    /\ report = NoReport
    /\ algo = IF Accepted(cfg) THEN EngineOf(cfg) ELSE "none"
    /\ capacity = IF Accepted(cfg) THEN cfg.numframes ELSE 0
    /\ frames = <<>>
    /\ pages = IF algo \in {"clock", "pair"} THEN [i \in Slots |-> NoPage] ELSE <<>>
    /\ refbit = IF algo \in {"clock", "pair"} THEN [i \in Slots |-> 0] ELSE <<>>
    /\ dirty = IF algo \in {"clock", "pair"} THEN [i \in Slots |-> 0] ELSE <<>>
    /\ hand = 0
    /\ loc = <<>>
    /\ events = 0 /\ disk_reads = 0 /\ disk_writes = 0
    /\ stats = [references |-> 0, hits |-> 0, misses |-> 0, evictions |-> 0]
    /\ last = <<>>
    /\ p2frame = IF algo \in {"p2clock", "pair"} THEN [i \in Slots |-> None] ELSE <<>>
    /\ p2refbit = IF algo \in {"p2clock", "pair"} THEN [i \in Slots |-> 0] ELSE <<>>
    /\ p2hand = 0
    /\ memory = <<>>
    /\ hits = 0 /\ misses = 0 /\ evictions = 0
    /\ delivered = 0
    /\ nhits = 0
    /\ recency = <<>>
    /\ wsl = [p \in PageIds |-> FALSE]
    /\ evicted = NoPage
    /\ visits = 0
    /\ replay = <<>>
    /\ distinct = {}
    /\ loadOrder = <<>>

Init == \E c \in Configs : Start(c)

Next ==
    \/ \E op \in Ops, addr \in Addrs : LRUAccess(op, addr)
    \/ \E op \in Ops, addr \in Addrs : ClockAccess(op, addr)
    \/ \E pg \in PageIds : P2LruAccess(pg)
    \/ \E pg \in PageIds : P2ClockAccess(pg)
    \/ \E p \in PageIds : FifoAccess(p)

Spec == Init /\ [][Next]_vars

\* ---- ClockSim and simulate_clock side by side on one trace ----
\* one event: ClockSim.access(op, addr) and simulate_clock's loop body for
\* the page of addr
PairAccess(op, addr) ==
    /\ algo = "pair"
    /\ status = "running"
    /\ delivered < MaxLen
    /\ UNCHANGED runvars
    /\ UNCHANGED <<algo, capacity, lruvars, p2lruvars, fifovars>>
    /\ ClockStep(op, addr)
    /\ P2ClockStep(addr \div PAGE_SIZE)
    /\ Observe(addr \div PAGE_SIZE, op, ClockVisits(addr \div PAGE_SIZE))

InitPair == \E c \in PairConfigs : Start(c)

NextPair == \E op \in Ops, addr \in Addrs : PairAccess(op, addr)

SpecPair == InitPair /\ [][NextPair]_vars

\* ---- end of the trace: the counters are printed ----
\* memsim.py: (sim.disk_reads / sim.events) if sim.events else 0.0
\* prac2/memsim.py: (s.hits / s.references) if s.references else 0.0
\* a rate is the pair <<numerator, denominator>>; 0.0 is <<0, 1>>
GuardedRate(num, den) == IF den # 0 THEN <<num, den>> ELSE <<0, 1>>

\* memsim_backup.py: hits/len(pages), with no test of len(pages)
DivisionFails(den) == den = 0

Render ==
    CASE algo \in {"lru", "clock"} ->
            [events |-> events, faults |-> disk_reads,
             rate |-> GuardedRate(disk_reads, events)]
      [] algo \in {"p2lru", "p2clock"} ->
            [events |-> stats.references, faults |-> stats.misses,
             rate |-> GuardedRate(stats.hits, stats.references)]
      [] OTHER ->
            \* len(pages) : every page of the list has been processed
            [events |-> hits + misses, faults |-> misses,
             rate |-> IF DivisionFails(hits + misses) THEN <<0, 0>>
                      ELSE <<hits, hits + misses>>]

Finish ==
    /\ status = "running"
    /\ report' = Render
    /\ status' = IF algo = "fifo" /\ DivisionFails(hits + misses)
                 THEN "crashed" ELSE "done"
    /\ UNCHANGED <<cfg, algo, capacity, simvars, p2vars, fifovars, obsvars>>

NextRun == Next \/ Finish

\* a whole run: accesses, then the report once the trace ends
SpecRun == Init /\ [][NextRun]_vars

\* ============================ properties ===============================
Lrus == {"lru", "p2lru"}
Clocks == {"clock", "p2clock"}
Sims == {"lru", "clock"}

\* slot-indexed view of either CLOCK implementation
ClkPages == IF algo = "clock" THEN pages ELSE p2frame
ClkRef == IF algo = "clock" THEN refbit ELSE p2refbit
ClkHand == IF algo = "clock" THEN hand ELSE p2hand
ClkEmpty == IF algo = "clock" THEN NoPage ELSE None

\* evictions counted by the engine; LRUSim and ClockSim keep no such counter
EvictionCount ==
    CASE algo \in Sims -> disk_reads - Cardinality(Resident)
      [] algo = "fifo" -> evictions
      [] OTHER -> stats.evictions

\* C1: for every policy and capacity, in every reachable state at most
\* `capacity` pages are resident and no page is resident twice.
C1_CapacityRespected ==
    /\ Cardinality(Resident) <= capacity
    /\ algo = "lru" =>
         /\ Len(frames) <= capacity
         /\ \A i, j \in DOMAIN frames : frames[i].page = frames[j].page => i = j
    /\ algo \in Clocks =>
         \A i, j \in DOMAIN ClkPages :
            (ClkPages[i] = ClkPages[j] /\ ClkPages[i] # ClkEmpty) => i = j
    /\ algo = "fifo" =>
         /\ Len(memory) <= capacity
         /\ \A i, j \in DOMAIN memory : memory[i] = memory[j] => i = j

C1_Witness ==
    /\ algo = "lru" /\ capacity = MaxCap
    /\ Cardinality(Resident) = capacity
    /\ evicted # NoPage

\* C2: in ClockSim the page-to-slot lookup and the frame array agree in
\* every reachable state: loc[p] = i exactly when pages[i] = p, so each
\* occupied slot has one lookup entry and an empty slot has none.
C2_LookupAgrees ==
    algo = "clock" =>
        /\ DOMAIN loc = Range(pages) \ {NoPage}
        /\ \A p \in DOMAIN loc : loc[p] \in Slots /\ pages[loc[p]] = p
        /\ \A i \in Slots : pages[i] # NoPage =>
              /\ pages[i] \in DOMAIN loc
              /\ loc[pages[i]] = i
        /\ \A p \in PageIds, i \in Slots :
              (p \in DOMAIN loc /\ loc[p] = i) <=> pages[i] = p

C2_Witness ==
    /\ algo = "clock" /\ capacity = MaxCap
    /\ evicted # NoPage
    /\ evicted \notin DOMAIN loc
    /\ Cardinality(DOMAIN loc) = capacity

\* C3: after every access hits + misses = events processed and no counter
\* is negative; in LRUSim and ClockSim every access either counts a disk
\* read or names a page that was resident, never both and never neither.
C3_HitsPlusMisses ==
    /\ algo \in Sims =>
         /\ events = delivered
         /\ disk_reads + nhits = events
         /\ disk_reads >= 0 /\ disk_writes >= 0
    /\ algo \in {"p2lru", "p2clock"} =>
         /\ stats.references = delivered
         /\ stats.hits + stats.misses = stats.references
         /\ stats.hits = nhits
         /\ stats.hits >= 0 /\ stats.misses >= 0 /\ stats.evictions >= 0
    /\ algo = "fifo" =>
         /\ hits + misses = delivered
         /\ hits = nhits
         /\ hits >= 0 /\ misses >= 0 /\ evictions >= 0

C3_Witness ==
    /\ algo = "p2lru"
    /\ delivered = MaxLen
    /\ stats.hits >= 2 /\ stats.misses >= 2 /\ stats.evictions >= 1

\* a miss: the accessed page was not resident when the access was made
MissStep == delivered' = delivered + 1 /\ nhits' = nhits

\* C4: an access made while fewer than `capacity` pages are resident removes
\* no resident page and leaves the eviction and write-back counters alone;
\* a page is removed only by a miss taken with the residency set full.
C4_Step ==
    /\ Cardinality(Resident) < capacity =>
         /\ Resident \subseteq Resident'
         /\ EvictionCount' = EvictionCount
         /\ disk_writes' = disk_writes
    /\ (Resident \ Resident' # {} \/ EvictionCount' # EvictionCount) =>
         /\ MissStep
         /\ Cardinality(Resident) = capacity

C4_NoEarlyEviction == [][C4_Step]_vars

C4_Witness ==
    /\ capacity = MaxCap
    /\ delivered = capacity
    /\ nhits = 1
    /\ Cardinality(Resident) = capacity - 1
    /\ evicted = NoPage

\* the pages of LRUSim.frames in dictionary order, oldest entry first
FrameOrder == [i \in DOMAIN frames |-> frames[i].page]

\* p comes before q in the sequence s
Before(s, p, q) ==
    \E i, j \in DOMAIN s : i < j /\ s[i] = p /\ s[j] = q

\* C5 (state part): the engine's eviction order is the order of the latest
\* accesses, so the page just accessed is the most recently used one, and
\* no two resident pages tie.
C5_Order ==
    /\ algo = "lru" => FrameOrder = recency
    /\ algo = "p2lru" =>
         /\ \A p, q \in DOMAIN last : p # q => last[p] # last[q]
         /\ \A p, q \in DOMAIN last : last[p] < last[q] <=> Before(recency, p, q)

\* C5 (step part): a miss taken at capacity removes exactly the resident
\* page whose latest access is the oldest.
C5_Step ==
    (algo \in Lrus /\ MissStep /\ Cardinality(Resident) = capacity) =>
        Resident \ Resident' = {Head(recency)}

\* C5: LRU evicts the resident page whose most recent access is the oldest,
\* a hit makes the accessed page the most recently used, and the choice is
\* never ambiguous.
C5_LruVictim == [](C5_Order) /\ [][C5_Step]_vars

C5_Witness ==
    /\ algo = "lru" /\ capacity = 2
    /\ replay = <<1, 2, 3, 2, 4>>
    /\ evicted = 3

\* C6: on a CLOCK miss with no empty slot the victim is the first slot, in
\* circular order from the hand, whose reference bit is 0 (the hand's own
\* slot when every bit is 1); the slots passed on the way there end with
\* reference bit 0 and the slots not reached keep theirs.  (The victim's
\* own bit is then set by the placement.)
C6_Step ==
    (algo \in Clocks /\ MissStep /\ ClkEmpty \notin Range(ClkPages)) =>
        LET zeros == {k \in 0..(capacity - 1) : ClkRef[(ClkHand + k) % capacity] = 0}
            d == IF zeros = {} THEN capacity
                 ELSE CHOOSE k \in zeros : \A m \in zeros : k <= m
            victim == (ClkHand + d) % capacity
            passed == {(ClkHand + k) % capacity : k \in 0..(d - 1)}
        IN  /\ \A i \in Slots : ClkPages'[i] # ClkPages[i] <=> i = victim
            /\ \A i \in Slots \ {victim} :
                  ClkRef'[i] = IF i \in passed THEN 0 ELSE ClkRef[i]
            /\ visits' = d + 1

C6_ClockVictim == [][C6_Step]_vars

C6_Witness ==
    /\ algo = "clock" /\ capacity = 3
    /\ visits = 2
    /\ \E i \in Slots : refbit[i] = 0
    /\ \E i \in Slots : i # (hand + capacity - 1) % capacity /\ refbit[i] = 1

\* C7: in LRUSim and ClockSim an access that evicts a page adds 1 to
\* disk_writes when that page was written since its load (the loading
\* access included) and 0 when it was not; no other access changes
\* disk_writes.
C7_Step ==
    algo \in Sims =>
        IF Resident \ Resident' # {}
        THEN \E e \in Resident \ Resident' :
                /\ Resident \ Resident' = {e}
                /\ disk_writes' = disk_writes + (IF wsl[e] THEN 1 ELSE 0)
        ELSE disk_writes' = disk_writes

C7_WriteBacks == [][C7_Step]_vars

C7_Witness ==
    /\ algo = "clock"
    /\ disk_writes >= 1
    /\ EvictionCount > disk_writes
    /\ evicted # NoPage

\* C8: every victim search of CLOCK ends, after visiting at most
\* 2 x capacity slots.
C8_ScanBounded == algo \in Clocks => visits <= 2 * capacity

C8_Witness ==
    /\ algo = "clock" /\ capacity = MaxCap
    /\ visits = capacity + 1

\* the run has replayed exactly the page trace 1,2,3,1,2,4 under CLOCK with 3 frames
ClockExampleDone ==
    algo \in Clocks /\ capacity = 3 /\ replay = <<1, 2, 3, 1, 2, 4>>

\* C9 as stated: replaying 1,2,3,1,2,4 under CLOCK with capacity 3 evicts
\* page 3 when page 4 is inserted, and the run has exactly 1 eviction.
C9_AsStated ==
    ClockExampleDone =>
        /\ evicted = 3
        /\ Resident = {1, 2, 4}
        /\ EvictionCount = 1

\* C9 amended: replaying 1,2,3,1,2,4 under CLOCK with capacity 3 evicts
\* page 1 when page 4 is inserted (every reference bit is 1, the search
\* clears them all and returns to the hand's slot 0), pages 2 and 3 stay
\* resident, and the run has exactly 1 eviction.
C9_ClockExample ==
    ClockExampleDone =>
        /\ evicted = 1
        /\ Resident = {2, 3, 4}
        /\ ClkPages[0] = 4
        /\ visits = capacity + 1
        /\ EvictionCount = 1

C9_Witness == ClockExampleDone /\ algo = "clock" /\ disk_reads = 4

\* the run has replayed the first five pages of 1,2,3,2,4,1 under LRU with 3 frames
LruExampleFifth ==
    algo \in Lrus /\ capacity = 3 /\ replay = <<1, 2, 3, 2, 4>>

\* C10 as stated: replaying 1,2,3,2,4,1 under LRU with capacity 3 evicts
\* page 3 on the miss of the 5th access.
C10_AsStated == LruExampleFifth => evicted = 3

\* C10 amended: replaying 1,2,3,2,4,1 under LRU with capacity 3 evicts
\* page 1 on the miss of the 5th access (the access to page 4).
C10_LruExample ==
    LruExampleFifth => (evicted = 1 /\ Resident = {2, 3, 4})

C10_Witness == LruExampleFifth /\ algo = "lru" /\ disk_reads = 4

\* faults and hits counted by the engine (LRUSim and ClockSim count no hits)
FaultCount ==
    CASE algo \in Sims -> disk_reads
      [] algo = "fifo" -> misses
      [] OTHER -> stats.misses

HitCount ==
    CASE algo \in Sims -> events - disk_reads
      [] algo = "fifo" -> hits
      [] OTHER -> stats.hits

\* C11: while the pages delivered are pairwise distinct, every access is a
\* fault: after n of them the engine has n faults, 0 hits and
\* max(0, n - capacity) evictions, so the first `capacity` faults evict
\* nothing.
C11_DistinctTrace ==
    (algo # "none" /\ distinct # Repeated) =>
        /\ Cardinality(distinct) = delivered
        /\ FaultCount = delivered
        /\ HitCount = 0 /\ nhits = 0
        /\ EvictionCount = IF delivered > capacity THEN delivered - capacity ELSE 0

C11_Witness ==
    /\ algo = "clock" /\ capacity = 2
    /\ distinct = PageIds
    /\ disk_reads = NumPages

\* C12: a run over a trace with zero events ends without error and reports
\* events = 0, faults = 0 and a rate of 0.0, whatever the policy and capacity.
C12_EmptyTrace ==
    (status \in {"done", "crashed"} /\ delivered = 0) =>
        /\ status = "done"
        /\ report.events = 0
        /\ report.faults = 0
        /\ report.rate = <<0, 1>>

\* C13: a capacity <= 0 or a policy name that is not a recognised option
\* is refused before any event is processed: no access is made and every
\* counter is 0.
C13_ConfigError ==
    (cfg.program \in {"memsim", "prac2"}
        /\ (cfg.numframes <= 0 \/ cfg.algorithm \notin {"lru", "clock"})) =>
        /\ status = "config_error"
        /\ delivered = 0 /\ Resident = {}
        /\ events = 0 /\ disk_reads = 0 /\ disk_writes = 0
        /\ stats = [references |-> 0, hits |-> 0, misses |-> 0, evictions |-> 0]
        /\ report = NoReport

C13_Witness ==
    /\ status = "config_error"
    /\ cfg.program = "memsim"
    /\ cfg.algorithm = "lru" /\ cfg.numframes = 0

Last(s) == s[Len(s)]

\* a hit: the accessed page was resident when the access was made
HitStep == delivered' = delivered + 1 /\ nhits' = nhits + 1

\* C15: with capacity 1 under LRU and CLOCK an access is a fault exactly
\* when it is the first access or its page differs from the page of the
\* access before it, and every such fault after the first evicts the one
\* resident page.
C15_Step ==
    (capacity = 1 /\ algo \in Lrus \cup Clocks /\ delivered' = delivered + 1) =>
        /\ recency' # <<>>
        /\ MissStep <=> (delivered = 0 \/ Last(recency') # Last(recency))
        /\ (MissStep /\ delivered > 0) =>
              /\ Resident \ Resident' = {Last(recency)}
              /\ Resident' = {Last(recency')}
              /\ EvictionCount' = EvictionCount + 1

C15_SingleFrame == [][C15_Step]_vars

C15_Witness ==
    /\ algo = "clock" /\ capacity = 1
    /\ replay = <<1, 2, 1, 2, 1>>
    /\ disk_reads = 5
    /\ evicted = 2

\* C16 (state part): the FIFO queue holds the resident pages in the order
\* in which they were loaded, whatever hits they received.
C16_Queue == algo = "fifo" => memory = loadOrder

\* C16 (step part): a hit changes the hit counter and nothing else; a miss
\* at capacity removes the page loaded earliest and every miss puts the new
\* page at the back, the other pages keeping their order.
C16_Step ==
    (algo = "fifo" /\ delivered' = delivered + 1) =>
        IF HitStep
        THEN /\ memory' = memory
             /\ hits' = hits + 1
             /\ misses' = misses /\ evictions' = evictions
        ELSE /\ Len(memory) = FifoFrames =>
                  /\ Resident \ Resident' = {Head(loadOrder)}
                  /\ evictions' = evictions + 1
             /\ Len(memory) < FifoFrames => Resident \subseteq Resident'
             /\ memory' # <<>>
             /\ Resident' \ Resident = {Last(memory')}
             /\ SubSeq(memory', 1, Len(memory') - 1)
                   = SelectSeq(memory, LAMBDA q : q \in Resident')

\* C16: in FIFO a hit changes only the hit counter, and a miss at capacity
\* evicts the page inserted earliest, whatever hits it received, then
\* appends the new page at the back.
C16_Fifo == [](C16_Queue) /\ [][C16_Step]_vars

C16_Witness ==
    /\ algo = "fifo"
    /\ replay = <<1, 2, 3, 1, 2, 4>>
    /\ hits = 2
    /\ evicted = 1
    /\ memory = <<2, 3, 4>>

\* the slot of a CLOCK implementation that holds page p
SlotOf(p) == CHOOSE i \in Slots : ClkPages[i] = p

\* C17: a CLOCK hit sets the reference bit of the slot holding the page to
\* 1, sets its dirty flag when the access is a Write, and changes nothing
\* else: hand, resident pages, lookup, the other slots' bits and the fault
\* and write-back counters stay, the event counter advances.
C17_Step ==
    (algo \in Clocks /\ HitStep) =>
        /\ ClkPages' = ClkPages
        /\ ClkHand' = ClkHand
        /\ recency' # <<>>
        /\ Last(recency') \in Resident
        /\ LET p == Last(recency')
               i == SlotOf(p)
           IN  /\ ClkRef'[i] = 1
               /\ \A j \in Slots \ {i} : ClkRef'[j] = ClkRef[j]
               /\ algo = "clock" =>
                     /\ loc' = loc
                     /\ dirty'[i] = IF ~wsl[p] /\ wsl'[p] THEN 1 ELSE dirty[i]
                     /\ \A j \in Slots \ {i} : dirty'[j] = dirty[j]
                     /\ events' = events + 1
                     /\ disk_reads' = disk_reads /\ disk_writes' = disk_writes
               /\ algo = "p2clock" =>
                     stats' = [stats EXCEPT !.references = @ + 1, !.hits = @ + 1]

C17_ClockHit == [][C17_Step]_vars

\* a hit that followed an eviction and found its page written
C17_Witness ==
    /\ algo = "clock" /\ capacity = MaxCap
    /\ EvictionCount >= 1
    /\ evicted = NoPage
    /\ nhits >= 1
    /\ wsl[Last(recency)]
    /\ dirty[loc[Last(recency)]] = 1
    /\ \E i \in Slots : refbit[i] = 0

\* C18: after every CLOCK placement, into an empty slot or into the
\* victim's slot, the hand is at the slot right after the slot that
\* received the page (modulo capacity) and the placed page has reference
\* bit 1.
C18_Step ==
    (algo \in Clocks /\ MissStep) =>
        \E i \in Slots :
            /\ ClkPages'[i] # ClkPages[i]
            /\ ClkRef'[i] = 1
            /\ ClkHand' = (i + 1) % capacity

C18_HandAfterPlacement == [][C18_Step]_vars

\* C19: in LRUSim a page loaded by a miss goes to the most-recently-used
\* end: right after the load it is last in eviction order, so with capacity
\* >= 2 an eviction by the next access never removes it (an eviction never
\* removes the page of the access before it), and a page is evicted only
\* when every other resident page was accessed after its own latest access.
C19_Step ==
    algo = "lru" =>
        /\ MissStep =>
              /\ frames' # <<>>
              /\ Resident' \ Resident = {Last(FrameOrder')}
              /\ Last(recency') = Last(FrameOrder')
        /\ (capacity >= 2 /\ Resident \ Resident' # {}) =>
              /\ Resident \ Resident' = {Head(recency)}
              /\ Head(recency) # Last(recency)

C19_LoadAtMru == [][C19_Step]_vars

C19_Witness ==
    /\ algo = "lru" /\ capacity = 2
    /\ replay = <<1, 2, 3>>
    /\ evicted = 1
    /\ FrameOrder = <<2, 3>>

\* C20: in LRUSim and ClockSim the dirty flag of a resident page is set
\* exactly when the page was written since its latest load, the loading
\* access included; a page evicted dirty and loaded again by a Read is
\* clean.
C20_DirtyMeansWritten ==
    /\ algo = "lru" =>
          \A i \in DOMAIN frames : frames[i].dirty <=> wsl[frames[i].page]
    /\ algo = "clock" =>
          \A i \in Slots : pages[i] # NoPage => (dirty[i] = 1 <=> wsl[pages[i]])

\* capacity 1, trace 1,2,1: both earlier pages were evicted dirty and page 1
\* came back through a Read
C20_Witness ==
    /\ algo = "lru" /\ capacity = 1
    /\ replay = <<1, 2, 1>>
    /\ disk_writes = 2
    /\ frames[1].page = 1 /\ ~frames[1].dirty

Max(a, b) == IF a >= b THEN a ELSE b

\* C21 (state part): the engines that count evictions have
\* misses = evictions + resident pages; in every engine the faults beyond
\* the capacity, and only those, evicted a page (evictions =
\* max(0, misses - capacity), i.e. resident pages = min(misses, capacity));
\* LRUSim and ClockSim have disk_writes <= disk_reads - resident pages.
C21_Balance ==
    algo # "none" =>
        /\ algo \notin Sims =>
              /\ FaultCount = EvictionCount + Cardinality(Resident)
              /\ EvictionCount = Max(0, FaultCount - capacity)
        /\ algo \in Sims =>
              /\ disk_reads - Cardinality(Resident) = Max(0, disk_reads - capacity)
              /\ disk_writes <= disk_reads - Cardinality(Resident)

\* C21 (step part): a fault loads exactly one page, removes at most one, and
\* the number of resident pages never decreases.
C21_Step ==
    /\ Cardinality(Resident') >= Cardinality(Resident)
    /\ FaultCount' = FaultCount + 1 =>
          /\ Cardinality(Resident' \ Resident) = 1
          /\ Cardinality(Resident \ Resident') <= 1
    /\ FaultCount' = FaultCount => Resident' = Resident

\* C21: for every policy misses = evictions + number of resident pages in
\* every reachable state; the resident count never decreases, evictions =
\* max(0, misses - capacity), and in LRUSim/ClockSim
\* disk_writes <= disk_reads - number of resident pages.
C21_MissBalance == [](C21_Balance) /\ [][C21_Step]_vars

C21_Witness ==
    /\ algo = "p2clock" /\ capacity = 2
    /\ stats.misses = 5 /\ stats.evictions = 3
    /\ Cardinality(Resident) = 2
    /\ stats.hits >= 1

\* C22: ClockSim and simulate_clock, built with the same capacity and fed
\* the same page sequence, hold the same page in every slot and the same
\* reference bits after each access, and their counters agree (events =
\* references, disk_reads = misses, hits alike), so every access has the
\* same hit/miss outcome in both.
C22_ClocksAgree ==
    algo = "pair" =>
        /\ \A i \in Slots :
              IF pages[i] = NoPage THEN p2frame[i] = None
              ELSE p2frame[i] = pages[i]
        /\ refbit = p2refbit
        /\ events = stats.references
        /\ disk_reads = stats.misses
        /\ events - disk_reads = stats.hits
        /\ nhits = stats.hits

\* both have evicted twice and hit at least once; a reference bit is clear
C22_Witness ==
    /\ algo = "pair" /\ capacity = MaxCap
    /\ stats.evictions >= 2
    /\ stats.hits >= 1
    /\ \E i \in Slots : refbit[i] = 0
    /\ disk_writes >= 1

====
